---- MODULE Spec2Model ----
(***************************************************************************)
(* Model of script.js of the Image Compressor: the upload handler, the     *)
(* single-file pipeline (compressImage), the batch pipeline                *)
(* (processBatchWithWorker: dispatch loop, worker code, completion         *)
(* handler) and resetApp, as a state machine over the script's globals and *)
(* the DOM fields it reads and writes.                                     *)
(*                                                                         *)
(* Representation:                                                         *)
(*  - text of an input field: a sequence of one-character strings;         *)
(*  - a JavaScript number that may be NaN: [nan |-> BOOLEAN, val |-> Int]; *)
(*    arithmetic is exact (w * k / 100 is computed on integers); for the   *)
(*    image sizes of FileTable and whole percentages 0..200 the exact      *)
(*    result and the IEEE double result of Math.round(w * (k / 100))       *)
(*    are the same number;                                                 *)
(*  - null: the empty sequence <<>>, a held value v: <<v>>;                *)
(*  - a file: its index in FileTable; 0 is "no file".                      *)
(***************************************************************************)
EXTENDS Integers, Sequences, FiniteSets, TLC

(***************************************************************************)
(* Bounds of the model.                                                    *)
(***************************************************************************)
\* Spec: uploads, batch runs, single-file runs and resets of one behaviour
MaxUploads == 2
MaxBatches == 2
MaxSingleRuns == 1
MaxResets == 1
\* SpecControls: edits of the controls
MaxEdits == 2
\* SpecSingle: single-file runs of one behaviour
MaxSessionRuns == 2
\* SpecDownload: clicks on the download button
MaxDownloads == 2

(***************************************************************************)
(* JavaScript numbers, parseInt, String(n), Math.round.                    *)
(***************************************************************************)
Num(v) == [nan |-> FALSE, val |-> v]
NaN == [nan |-> TRUE, val |-> 0]

\* JavaScript truthiness of a number: NaN and 0 are falsy.
Truthy(x) == ~x.nan /\ x.val # 0

\* a || b on numbers
OrElse(a, b) == IF Truthy(a) THEN a ELSE b

DigitChars == <<"0", "1", "2", "3", "4", "5", "6", "7", "8", "9">>

IsDigit(c) == \E i \in 1..10 : DigitChars[i] = c

DigitVal(c) == (CHOOSE i \in 1..10 : DigitChars[i] = c) - 1

\* the longest prefix of t made of digits
RECURSIVE DigitPrefix(_)
DigitPrefix(t) ==
    IF t = <<>> \/ ~IsDigit(Head(t)) THEN <<>>
    ELSE <<Head(t)>> \o DigitPrefix(Tail(t))

RECURSIVE DigitsValue(_, _)
DigitsValue(ds, acc) ==
    IF ds = <<>> THEN acc
    ELSE DigitsValue(Tail(ds), 10 * acc + DigitVal(Head(ds)))

RECURSIVE SkipSpaces(_)
SkipSpaces(t) ==
    IF t # <<>> /\ Head(t) = " " THEN SkipSpaces(Tail(t)) ELSE t

\* parseInt(text), radix 10: leading blanks, an optional sign, then the
\* digits up to the first other character; NaN when there is no digit.
ParseInt(text) ==
    LET s == SkipSpaces(text)
        neg == s # <<>> /\ Head(s) = "-"
        body == IF s # <<>> /\ Head(s) \in {"-", "+"} THEN Tail(s) ELSE s
        ds == DigitPrefix(body)
    IN IF ds = <<>> THEN NaN
       ELSE Num(IF neg THEN 0 - DigitsValue(ds, 0) ELSE DigitsValue(ds, 0))

RECURSIVE NatText(_)
NatText(n) ==
    IF n < 10 THEN <<DigitChars[n + 1]>>
    ELSE NatText(n \div 10) \o <<DigitChars[(n % 10) + 1]>>

\* String(x) of a number, as assigning a number to input.value does
ToText(x) ==
    IF x.nan THEN <<"N", "a", "N">>
    ELSE IF x.val < 0 THEN <<"-">> \o NatText(0 - x.val)
    ELSE NatText(x.val)

\* Math.round(n / d) for d > 0: floor(n/d + 1/2)
RoundDiv(n, d) == (2 * n + d) \div (2 * d)

\* Math.round(w * p) where p = parseInt(text) / 100
RoundScaled(w, pct) ==
    IF pct.nan THEN NaN ELSE Num(RoundDiv(w * pct.val, 100))

(***************************************************************************)
(* The files a user can pick.  decodable = FALSE is a corrupt image: the   *)
(* host fires the image's error event instead of load.                     *)
(***************************************************************************)
FileTable == <<
    [name |-> <<"a", ".", "j", "p", "g">>, type |-> "image/jpeg",
     size |-> 500000, width |-> 1000, height |-> 500, decodable |-> TRUE],
    [name |-> <<"p", ".", "P", "N", "G">>, type |-> "image/png",
     size |-> 2000, width |-> 30, height |-> 20, decodable |-> TRUE],
    [name |-> <<"c", ".", "w", "e", "b", "p">>, type |-> "image/webp",
     size |-> 4000, width |-> 0, height |-> 0, decodable |-> FALSE],
    [name |-> <<"d", ".", "g", "i", "f">>, type |-> "image/gif",
     size |-> 1000, width |-> 10, height |-> 10, decodable |-> TRUE] >>

NoFile == 0

\* the selections a file input or a drop delivers
Selections ==
    { <<1>>, <<4>>, <<3, 4>>, <<1, 2>>, <<3, 2, 4>> }

\* the selections of one image file, or of none
SingleSelections ==
    { <<1>>, <<2>>, <<3, 4>>, <<4>>, <<>> }

\* the sizes the host encoder can give an encoded image
EncodedSizes == {150000}

\* the sizes the host encoder gives in SpecReport; for these and the sizes of
\* FileTable (1 - s/o) * 100 is no tie between two tenths, and its double and
\* its exact value round to the same tenth
ReportSizes == {150000, 1234}

\* the texts a user types into the width, height and percentage fields,
\* the formats of the format list and the positions of the quality slider
WidthTexts == { <<>>, <<"4", "0", "0">> }
HeightTexts == { <<"0">>, <<"1", "0", "0">> }
PercentageTexts == { <<"5", "0">>, <<"1", "2", ".", "5">> }
FormatChoices == { "same", "jpeg", "png" }
QualityTexts == { <<"5", "0">> }

(***************************************************************************)
(* State.                                                                  *)
(***************************************************************************)
VARIABLES
    uploadedFiles,        \* let uploadedFiles: sequence of files
    currentFile,          \* let currentFile: a file or NoFile
    compressedFile,       \* let compressedFile: <<>> or <<blob>>
    compressedFiles,      \* let compressedFiles: sequence of result entries
    originalAspectRatio,  \* let originalAspectRatio: [num, den], 0 is 0/1
    ui,                   \* the controls the script reads
    dom,                  \* the elements the script writes
    batchResults,         \* rows of the batch results container
    previewLoads,         \* displayOriginalImage calls whose image is loading
    singleRuns,           \* compressImage calls, one record per call
    workers,              \* one record per processBatchWithWorker call
    liveUrls,             \* object URLs created and not revoked
    hostWorkerDOM,        \* whether Image and document exist in a worker's scope
    used                  \* history: counts of uploads, resets and edits, and
                          \* job, the batch of the latest compressImages call
                          \* (0: none, a single-file run, or discarded by reset)

vars == <<uploadedFiles, currentFile, compressedFile, compressedFiles,
          originalAspectRatio, ui, dom, batchResults, previewLoads,
          singleRuns, workers, liveUrls, hostWorkerDOM, used>>

globals == <<uploadedFiles, currentFile, compressedFile, compressedFiles>>

File(f) == FileTable[f]

(***************************************************************************)
(* Pure helpers of the script.                                             *)
(***************************************************************************)
\* inputType.split('/')[1]
Subtype(mime) ==
    CASE mime = "image/jpeg" -> "jpeg"
      [] mime = "image/png" -> "png"
      [] mime = "image/webp" -> "webp"
      [] mime = "image/gif" -> "gif"
      [] OTHER -> ""

getOutputFormat(inputType) ==
    IF ui.format = "same" THEN Subtype(inputType) ELSE ui.format

getMimeType(format) ==
    CASE format \in {"jpeg", "jpg"} -> "image/jpeg"
      [] format = "png" -> "image/png"
      [] format = "webp" -> "image/webp"
      [] OTHER -> "image/jpeg"

\* position of the last "." of a name, 0 if none
LastDot(name) ==
    IF \E i \in 1..Len(name) : name[i] = "."
    THEN CHOOSE i \in 1..Len(name) :
            name[i] = "." /\ \A j \in (i + 1)..Len(name) : name[j] # "."
    ELSE 0

\* inputName.replace(/\.[^\.]+$/, ''): drops the last "." and what follows it
\* when at least one character follows
BaseName(name) ==
    LET d == LastDot(name)
    IN IF d > 0 /\ d < Len(name) THEN SubSeq(name, 1, d - 1) ELSE name

getOutputFileName(inputName, outputFormat) ==
    BaseName(inputName) \o <<"-compressed.", outputFormat>>

\* parseInt(qualitySlider.value) / 100, kept as the number of hundredths
QualityOf(text) == ParseInt(text)

\* IsSupported with the filter callback testing for any image type
IsSupportedAnyImage(f) ==
    File(f).type \in {"image/jpeg", "image/png", "image/webp", "image/gif"}

\* the image types processFiles keeps
IsSupported(f) ==
    File(f).type \in {"image/jpeg", "image/png", "image/webp"}

\* Array.prototype.filter over a file list
RECURSIVE FilterSupported(_)
FilterSupported(files) ==
    IF files = <<>> THEN <<>>
    ELSE IF IsSupported(Head(files))
         THEN <<Head(files)>> \o FilterSupported(Tail(files))
         ELSE FilterSupported(Tail(files))

(***************************************************************************)
(* Initial state: the page as loaded.  The controls keep their values      *)
(* across resetApp, so a fresh page with any setting of the controls is a  *)
(* state the program is in after an upload, edits and a reset.             *)
(***************************************************************************)
DefaultControls ==
    [quality |-> <<"8", "0">>, resizeToggle |-> FALSE, resizeMode |-> "pixels",
     width |-> <<>>, height |-> <<>>, percentage |-> <<"5", "0">>,
     format |-> "same", maintainAspect |-> TRUE]

InitialControls ==
    { DefaultControls,
      [DefaultControls EXCEPT !.resizeToggle = TRUE],
      [DefaultControls EXCEPT !.resizeToggle = TRUE, !.resizeMode = "percentage",
                              !.percentage = <<"1">>, !.format = "jpeg"] }

Zero == [num |-> 0, den |-> 1]

InitState(controls) ==
    /\ uploadedFiles = <<>>
    /\ currentFile = NoFile
    /\ compressedFile = <<>>
    /\ compressedFiles = <<>>
    /\ originalAspectRatio = Zero
    /\ ui = controls
    /\ dom = [controlsVisible |-> FALSE, compressBtnDisabled |-> TRUE,
              downloadBtnDisabled |-> TRUE, downloadAllBtnDisabled |-> TRUE,
              processedCount |-> 0, totalCount |-> 0, progressFill |-> Zero,
              compressedPreview |-> <<>>, lastDownload |-> <<>>]
    /\ batchResults = <<>>
    /\ previewLoads = {}
    /\ singleRuns = <<>>
    /\ workers = <<>>
    /\ liveUrls = {}
    /\ hostWorkerDOM \in BOOLEAN
    /\ used = [uploads |-> 0, resets |-> 0, edits |-> 0, job |-> 0]

Init == \E c \in InitialControls : InitState(c)

(***************************************************************************)
(* Upload: handleFileSelect / handleDrop -> processFiles.                  *)
(***************************************************************************)
\* processFiles with the assignments made before the test for an empty
\* filter result
processFilesAssigningFirst(files) ==
    LET imageFiles == FilterSupported(files)
    IN IF Len(imageFiles) = 0
       THEN /\ uploadedFiles' = <<>>
            /\ currentFile' = NoFile
            /\ UNCHANGED <<compressedFile, compressedFiles, dom, previewLoads>>
       ELSE /\ uploadedFiles' = imageFiles
            /\ currentFile' = imageFiles[1]
            /\ UNCHANGED <<compressedFile, compressedFiles>>
            /\ dom' = [dom EXCEPT !.controlsVisible = TRUE,
                                  !.totalCount = Len(imageFiles),
                                  !.processedCount = 0,
                                  !.compressBtnDisabled = FALSE]
            /\ previewLoads' = previewLoads \cup
                   {[file |-> imageFiles[1], upload |-> used.uploads + 1]}

processFiles(files) ==
    LET imageFiles == FilterSupported(files)
    IN IF Len(imageFiles) = 0
       THEN \* alert(...); return
            UNCHANGED <<globals, dom, previewLoads>>
       ELSE /\ uploadedFiles' = imageFiles
            /\ currentFile' = imageFiles[1]
            /\ UNCHANGED <<compressedFile, compressedFiles>>
            \* showControls(), totalCount, processedCount, compressBtn
            /\ dom' = [dom EXCEPT !.controlsVisible = TRUE,
                                  !.totalCount = Len(imageFiles),
                                  !.processedCount = 0,
                                  !.compressBtnDisabled = FALSE]
            \* displayOriginalImage(currentFile)
            /\ previewLoads' = previewLoads \cup
                   {[file |-> imageFiles[1], upload |-> used.uploads + 1]}

handleFileSelect(files) ==
    /\ Len(files) > 0
    /\ processFiles(files)
    /\ used' = [used EXCEPT !.uploads = @ + 1]
    /\ UNCHANGED <<originalAspectRatio, ui, batchResults, singleRuns, workers,
                   liveUrls, hostWorkerDOM>>

\* img.onload of displayOriginalImage, after reader.onload
displayOriginalImageLoaded(p) ==
    /\ p \in previewLoads
    /\ File(p.file).decodable
    /\ previewLoads' = previewLoads \ {p}
    /\ originalAspectRatio' =
           [num |-> File(p.file).width, den |-> File(p.file).height]
    /\ ui' = [ui EXCEPT !.width = ToText(Num(File(p.file).width)),
                        !.height = ToText(Num(File(p.file).height))]
    /\ UNCHANGED <<globals, dom, batchResults, singleRuns, workers, liveUrls,
                   hostWorkerDOM, used>>

(***************************************************************************)
(* The controls.  Only the width and height fields have handlers that      *)
(* change state; the other controls are read when a compression runs.      *)
(***************************************************************************)
Edited(newUi) ==
    /\ dom.controlsVisible
    /\ ui' = newUi
    /\ newUi # ui
    /\ used' = [used EXCEPT !.edits = @ + 1]
    /\ UNCHANGED <<globals, originalAspectRatio, dom, batchResults,
                   previewLoads, singleRuns, workers, liveUrls, hostWorkerDOM>>

\* handleWidthChange without the body of its "if": the height field is left
\* as it is
handleWidthChangeNoLock(text) == Edited([ui EXCEPT !.width = text])

\* Math.round(n * d2 / n2) for the ratio n2/d2
handleWidthChange(text) ==
    LET newWidth == OrElse(ParseInt(text), Num(0))
    IN IF ui.maintainAspect /\ originalAspectRatio.num > 0
       THEN Edited([ui EXCEPT !.width = text,
                !.height = ToText(Num(RoundDiv(
                    newWidth.val * originalAspectRatio.den,
                    originalAspectRatio.num)))])
       ELSE Edited([ui EXCEPT !.width = text])

handleHeightChange(text) ==
    LET newHeight == OrElse(ParseInt(text), Num(0))
    IN IF ui.maintainAspect /\ originalAspectRatio.num > 0
       THEN Edited([ui EXCEPT !.height = text,
                !.width = ToText(Num(RoundDiv(
                    newHeight.val * originalAspectRatio.num,
                    originalAspectRatio.den)))])
       ELSE Edited([ui EXCEPT !.height = text])

inputPercentage(text) == Edited([ui EXCEPT !.percentage = text])

inputQuality(text) == Edited([ui EXCEPT !.quality = text])

toggleResize == Edited([ui EXCEPT !.resizeToggle = ~@])

selectResizeMode(m) == Edited([ui EXCEPT !.resizeMode = m])

selectFormat(f) == Edited([ui EXCEPT !.format = f])

toggleMaintainAspect == Edited([ui EXCEPT !.maintainAspect = ~@])

(***************************************************************************)
(* Single-file pipeline: compressImage.                                    *)
(***************************************************************************)
Range(seq) == { seq[i] : i \in 1..Len(seq) }

\* the text of t tenths, sign apart: "70.0" for 700
TenthsText(t) == NatText(t \div 10) \o <<".">> \o NatText(t % 10)

\* Reduction with the tenths cut off instead of rounded
ReductionTruncating(size, originalSize) ==
    LET n == IF size > originalSize THEN size - originalSize
             ELSE originalSize - size
    IN (IF size > originalSize THEN <<"-">> ELSE <<>>)
           \o TenthsText((n * 1000) \div originalSize)

\* ((1 - (size / originalSize)) * 100).toFixed(1): the sign, then the
\* magnitude rounded to the nearest tenth
Reduction(size, originalSize) ==
    LET n == IF size > originalSize THEN size - originalSize
             ELSE originalSize - size
    IN (IF size > originalSize THEN <<"-">> ELSE <<>>)
           \o TenthsText(RoundDiv(n * 1000, originalSize))

\* canvas.width = x / canvas.height = x: an unsigned long attribute; NaN
\* becomes 0 and a value out of range the default
CanvasSize(x, default) ==
    IF x.nan THEN 0
    ELSE IF x.val < 0 \/ x.val > 2147483647 THEN default
    ELSE x.val

\* canvas.toBlob gives null for a canvas with no pixels
BlobIsNull(width, height) ==
    CanvasSize(width, 300) = 0 \/ CanvasSize(height, 150) = 0

\* let width / let height of compressImage's img.onload
SingleDims(f) ==
    IF ui.resizeToggle /\ ui.resizeMode = "pixels"
    THEN [width |-> OrElse(ParseInt(ui.width), Num(File(f).width)),
          height |-> OrElse(ParseInt(ui.height), Num(File(f).height))]
    ELSE IF ui.resizeToggle /\ ui.resizeMode = "percentage"
    THEN [width |-> RoundScaled(File(f).width, ParseInt(ui.percentage)),
          height |-> RoundScaled(File(f).height, ParseInt(ui.percentage))]
    ELSE [width |-> Num(File(f).width), height |-> Num(File(f).height)]

compressImage(f) ==
    /\ singleRuns' = Append(singleRuns,
           [file |-> f, stage |-> "reading", rasterized |-> FALSE,
            quality |-> NaN, outputFormat |-> "", width |-> NaN,
            height |-> NaN, controls |-> ui])
    /\ UNCHANGED <<dom, batchResults, workers, liveUrls>>

\* reader.onload: new Image(), img.src = ...
singleReaderLoaded(r) ==
    /\ r \in 1..Len(singleRuns)
    /\ singleRuns[r].stage = "reading"
    /\ singleRuns' = [singleRuns EXCEPT ![r].stage = "decoding"]
    /\ UNCHANGED <<globals, originalAspectRatio, ui, dom, batchResults,
                   previewLoads, workers, liveUrls, hostWorkerDOM, used>>

\* singleRejected with a .catch that also drops the held result and disables
\* the download button
singleRejectedDroppingResult(r) ==
    /\ r \in 1..Len(singleRuns)
    /\ \/ singleRuns[r].stage = "reading"
       \/ singleRuns[r].stage = "decoding" /\ ~File(singleRuns[r].file).decodable
    /\ singleRuns' = [singleRuns EXCEPT ![r].stage = "failed"]
    /\ compressedFile' = <<>>
    /\ dom' = [dom EXCEPT !.downloadBtnDisabled = TRUE]
    /\ UNCHANGED <<uploadedFiles, currentFile, compressedFiles,
                   originalAspectRatio, ui, batchResults, previewLoads,
                   workers, liveUrls, hostWorkerDOM, used>>

\* reader.onerror or img.onerror: reject -> .catch: console.error, alert
singleRejected(r) ==
    /\ r \in 1..Len(singleRuns)
    /\ \/ singleRuns[r].stage = "reading"
       \/ singleRuns[r].stage = "decoding" /\ ~File(singleRuns[r].file).decodable
    /\ singleRuns' = [singleRuns EXCEPT ![r].stage = "failed"]
    /\ UNCHANGED <<globals, originalAspectRatio, ui, dom, batchResults,
                   previewLoads, workers, liveUrls, hostWorkerDOM, used>>

\* img.onload: reads the controls, sizes the canvas, draws, calls toBlob
singleImageLoaded(r) ==
    /\ r \in 1..Len(singleRuns)
    /\ singleRuns[r].stage = "decoding"
    /\ File(singleRuns[r].file).decodable
    /\ LET f == singleRuns[r].file
           d == SingleDims(f)
       IN singleRuns' = [singleRuns EXCEPT ![r] =
              [file |-> f, stage |-> "encoding", rasterized |-> TRUE,
               quality |-> QualityOf(ui.quality),
               outputFormat |-> getOutputFormat(File(f).type),
               width |-> d.width, height |-> d.height, controls |-> ui]]
    /\ UNCHANGED <<globals, originalAspectRatio, ui, dom, batchResults,
                   previewLoads, workers, liveUrls, hostWorkerDOM, used>>

\* the toBlob callback, and for a blob the .then of compressImages
singleEncoded(r, size) ==
    /\ r \in 1..Len(singleRuns)
    /\ singleRuns[r].stage = "encoding"
    /\ LET run == singleRuns[r]
           blob == [file |-> run.file, type |-> getMimeType(run.outputFormat),
                    size |-> size, width |-> run.width, height |-> run.height]
           result == [blob |-> blob, url |-> <<"single", r, 0>>, size |-> size,
                      width |-> run.width, height |-> run.height,
                      originalSize |-> File(run.file).size,
                      originalWidth |-> File(run.file).width,
                      originalHeight |-> File(run.file).height,
                      name |-> getOutputFileName(File(run.file).name,
                                                 run.outputFormat),
                      type |-> getMimeType(run.outputFormat),
                      reduction |-> Reduction(size, File(run.file).size),
                      controls |-> run.controls]
       IN IF BlobIsNull(run.width, run.height)
          THEN /\ singleRuns' = [singleRuns EXCEPT ![r].stage = "failed"]
               /\ UNCHANGED <<compressedFile, dom, liveUrls>>
          ELSE /\ singleRuns' = [singleRuns EXCEPT ![r].stage = "done"]
               /\ liveUrls' = liveUrls \cup {result.url}
               /\ compressedFile' = <<blob>>
               \* displayCompressedImage(result); downloadBtn.disabled = false
               /\ dom' = [dom EXCEPT !.compressedPreview = <<result>>,
                                     !.downloadBtnDisabled = FALSE]
    /\ UNCHANGED <<uploadedFiles, currentFile, compressedFiles,
                   originalAspectRatio, ui, batchResults, previewLoads,
                   workers, hostWorkerDOM, used>>

(***************************************************************************)
(* Batch pipeline: processBatchWithWorker.                                 *)
(***************************************************************************)
\* the message of the dispatch loop for a file, pixel mode or no resize
DirectMessage(f) ==
    [file |-> f, quality |-> QualityOf(ui.quality),
     resize |-> ui.resizeToggle,
     width |-> IF ui.resizeToggle /\ ui.resizeMode = "pixels"
               THEN OrElse(ParseInt(ui.width), Num(0)) ELSE Num(0),
     height |-> IF ui.resizeToggle /\ ui.resizeMode = "pixels"
                THEN OrElse(ParseInt(ui.height), Num(0)) ELSE Num(0),
     outputFormat |-> getMimeType(getOutputFormat(File(f).type)),
     controls |-> ui]

\* the closure of tempImg.onload for a file, percentage mode
TempClosure(f) ==
    [file |-> f, quality |-> QualityOf(ui.quality), resize |-> TRUE,
     percentage |-> ParseInt(ui.percentage),
     outputFormat |-> getMimeType(getOutputFormat(File(f).type)),
     controls |-> ui]

\* whether the dispatch loop takes the percentage branch
UsesTempImg ==
    ui.resizeToggle /\ ui.resizeMode # "pixels" /\ ui.resizeMode = "percentage"

processBatchWithWorker ==
    LET b == Len(workers) + 1
        files == Range(uploadedFiles)
    IN /\ dom' = [dom EXCEPT !.progressFill = Zero, !.processedCount = 0]
       /\ batchResults' = <<>>
       /\ workers' = Append(workers,
              [files |-> uploadedFiles, live |-> TRUE, aborted |-> FALSE,
               inbox |-> IF UsesTempImg THEN {}
                         ELSE { DirectMessage(f) : f \in files },
               temps |-> IF UsesTempImg
                         THEN { TempClosure(f) : f \in files } ELSE {},
               dispatched |-> [f \in files |-> IF UsesTempImg THEN 0 ELSE 1],
               drawn |-> {}, controls |-> ui])
       /\ liveUrls' = liveUrls \cup {<<"worker", b, 0>>}
              \cup (IF UsesTempImg
                    THEN { <<"temp", b, f>> : f \in files } ELSE {})
       /\ UNCHANGED singleRuns

compressImages ==
    /\ dom.controlsVisible /\ ~dom.compressBtnDisabled
    /\ Len(uploadedFiles) # 0
    /\ compressedFiles' = <<>>
    /\ IF Len(uploadedFiles) = 1
       THEN /\ compressImage(uploadedFiles[1])
            /\ used' = [used EXCEPT !.job = 0]
       ELSE /\ processBatchWithWorker
            /\ used' = [used EXCEPT !.job = Len(workers) + 1]
    /\ UNCHANGED <<uploadedFiles, currentFile, compressedFile,
                   originalAspectRatio, ui, previewLoads, hostWorkerDOM>>

\* TempMessage with width and height kept in variables shared by the
\* iterations of the dispatch loop: every message carries the dimensions of
\* the first file
TempMessageSharedDims(b, c) ==
    [file |-> c.file, quality |-> c.quality, resize |-> c.resize,
     width |-> RoundScaled(File(workers[b].files[1]).width, c.percentage),
     height |-> RoundScaled(File(workers[b].files[1]).height, c.percentage),
     outputFormat |-> c.outputFormat, controls |-> c.controls]

\* the message tempImg.onload posts: width and height from the temporary
\* image of the closure's own file
TempMessage(b, c) ==
    [file |-> c.file, quality |-> c.quality, resize |-> c.resize,
     width |-> RoundScaled(File(c.file).width, c.percentage),
     height |-> RoundScaled(File(c.file).height, c.percentage),
     outputFormat |-> c.outputFormat, controls |-> c.controls]

\* tempImg.onload: computes the dimensions, posts the message, revokes the
\* image's URL.  A message posted to a terminated worker is discarded.
tempImgLoaded(b, c) ==
    /\ b \in 1..Len(workers)
    /\ c \in workers[b].temps
    /\ File(c.file).decodable
    /\ LET msg == TempMessage(b, c)
       IN workers' = [workers EXCEPT
              ![b].temps = @ \ {c},
              ![b].inbox = IF workers[b].live THEN @ \cup {msg} ELSE @,
              ![b].dispatched[c.file] = IF workers[b].live THEN @ + 1 ELSE @]
    /\ liveUrls' = liveUrls \ {<<"temp", b, c.file>>}
    /\ UNCHANGED <<globals, originalAspectRatio, ui, dom, batchResults,
                   previewLoads, singleRuns, hostWorkerDOM, used>>

\* WorkerDims without the "if (resize)" branch
WorkerDimsIgnoringResize(m) ==
    [width |-> Num(File(m.file).width), height |-> Num(File(m.file).height)]

\* let outputWidth / let outputHeight of the worker's img.onload
WorkerDims(m) ==
    IF m.resize THEN [width |-> m.width, height |-> m.height]
    ELSE [width |-> Num(File(m.file).width),
          height |-> Num(File(m.file).height)]

\* the worker's handler gets as far as the toBlob callback with a blob
WorkerSucceeds(m) ==
    /\ hostWorkerDOM
    /\ File(m.file).decodable
    /\ ~BlobIsNull(WorkerDims(m).width, WorkerDims(m).height)

\* A message the worker's handler does not answer: new Image() is not
\* defined in the worker's scope, the image does not load (the worker sets no
\* onerror), or toBlob gives null and blob.size throws in the callback.
workerNoReply(b, m) ==
    /\ b \in 1..Len(workers)
    /\ workers[b].live
    /\ m \in workers[b].inbox
    /\ ~WorkerSucceeds(m)
    /\ workers' = [workers EXCEPT
           ![b].inbox = @ \ {m},
           ![b].drawn = IF hostWorkerDOM /\ File(m.file).decodable
                        THEN @ \cup {WorkerDims(m)} ELSE @]
    /\ UNCHANGED <<globals, originalAspectRatio, ui, dom, batchResults,
                   previewLoads, singleRuns, liveUrls, hostWorkerDOM, used>>

\* style.width = `${percentage}%`: "Infinity%" is no CSS value and leaves the
\* style as it was
SetProgressFill(old, processed, total) ==
    IF total = 0 THEN old ELSE [num |-> processed, den |-> total]

\* The worker finishes a message and posts its result; worker.onmessage of
\* batch b runs on it.
workerOnMessage(b, m, size) ==
    /\ b \in 1..Len(workers)
    /\ workers[b].live
    /\ m \in workers[b].inbox
    /\ WorkerSucceeds(m)
    /\ LET d == WorkerDims(m)
           blob == [file |-> m.file, type |-> m.outputFormat, size |-> size,
                    width |-> d.width, height |-> d.height]
           result == [blob |-> blob, name |-> File(m.file).name,
                      size |-> size, originalSize |-> File(m.file).size,
                      width |-> d.width, height |-> d.height,
                      reduction |-> Reduction(size, File(m.file).size),
                      batch |-> b, controls |-> m.controls]
           entry == [blob |-> blob,
                     name |-> getOutputFileName(result.name,
                                 getOutputFormat(getMimeType(blob.type))),
                     url |-> <<"result", b, m.file>>,
                     size |-> result.size,
                     originalSize |-> result.originalSize,
                     batch |-> b]
           processed == Len(compressedFiles) + 1
           total == Len(uploadedFiles)
       IN /\ compressedFiles' = Append(compressedFiles, entry)
          \* addBatchResultItem(result)
          /\ batchResults' = Append(batchResults, result)
          /\ dom' = [dom EXCEPT
                 !.progressFill = SetProgressFill(@, processed, total),
                 !.processedCount = processed,
                 !.downloadAllBtnDisabled =
                     IF processed = total THEN FALSE ELSE @]
          /\ workers' = [workers EXCEPT
                 ![b].drawn = @ \cup {d},
                 ![b].live = (processed # total),
                 ![b].inbox = IF processed = total THEN {} ELSE @ \ {m}]
          /\ liveUrls' = (liveUrls \cup {entry.url, <<"row", b, m.file>>})
                 \ (IF processed = total THEN {<<"worker", b, 0>>} ELSE {})
    /\ UNCHANGED <<uploadedFiles, currentFile, compressedFile,
                   originalAspectRatio, ui, previewLoads, singleRuns,
                   hostWorkerDOM, used>>

(***************************************************************************)
(* downloadCompressedImage.                                                *)
(***************************************************************************)
DownloadUrls == { u \in liveUrls : u[1] = "download" }

\* A click on the enabled download button.  The link's href is a fresh
\* object URL of compressedFile; with currentFile null the read of
\* currentFile.name throws before link.download is set and nothing is offered.
downloadCompressedImage ==
    /\ ~dom.downloadBtnDisabled
    /\ compressedFile # <<>>
    /\ liveUrls' = liveUrls \cup {<<"download", Cardinality(DownloadUrls) + 1, 0>>}
    /\ dom' = IF currentFile = NoFile THEN dom
              ELSE [dom EXCEPT !.lastDownload =
                       <<[blob |-> compressedFile[1],
                          name |-> getOutputFileName(File(currentFile).name,
                                      getOutputFormat(File(currentFile).type))]>>]
    /\ UNCHANGED <<globals, originalAspectRatio, ui, batchResults,
                   previewLoads, singleRuns, workers, hostWorkerDOM, used>>

(***************************************************************************)
(* resetApp.                                                               *)
(***************************************************************************)
UrlsOf(entries) == { entries[i].url : i \in 1..Len(entries) }

\* the entries the revoke loop at the end of resetApp walks over: the
\* array as it is then, already replaced by []
RevokedByReset(entriesBefore, entriesAfter) == UrlsOf(entriesAfter)

resetApp ==
    /\ uploadedFiles' = <<>>
    /\ currentFile' = NoFile
    /\ compressedFile' = <<>>
    /\ compressedFiles' = <<>>
    /\ dom' = [dom EXCEPT !.controlsVisible = FALSE,
                          !.compressedPreview = <<>>,
                          !.progressFill = Zero,
                          !.processedCount = 0,
                          !.totalCount = 0,
                          !.downloadBtnDisabled = TRUE,
                          !.downloadAllBtnDisabled = TRUE]
    /\ batchResults' = <<>>
    /\ liveUrls' = liveUrls \ RevokedByReset(compressedFiles, compressedFiles')
    \* history only: the batches still running are now aborted
    /\ workers' = [b \in 1..Len(workers) |->
                      [workers[b] EXCEPT !.aborted = @ \/ workers[b].live]]
    /\ used' = [used EXCEPT !.resets = @ + 1, !.job = 0]
    /\ UNCHANGED <<originalAspectRatio, ui, previewLoads, singleRuns,
                   hostWorkerDOM>>

(***************************************************************************)
(* Next-state relation.                                                    *)
(***************************************************************************)
Upload(max) ==
    /\ used.uploads < max
    /\ \E s \in Selections : handleFileSelect(s)

PreviewLoaded == \E p \in previewLoads : displayOriginalImageLoaded(p)

Compress(maxSingle, maxBatch) ==
    /\ IF Len(uploadedFiles) = 1 THEN Len(singleRuns) < maxSingle
                                 ELSE Len(workers) < maxBatch
    /\ compressImages

SingleStep ==
    \E r \in 1..Len(singleRuns) :
        \/ singleReaderLoaded(r)
        \/ singleRejected(r)
        \/ singleImageLoaded(r)
        \/ \E size \in EncodedSizes : singleEncoded(r, size)

TempImgStep ==
    \E b \in 1..Len(workers) : \E c \in workers[b].temps : tempImgLoaded(b, c)

WorkerStep ==
    \E b \in 1..Len(workers) : \E m \in workers[b].inbox :
        \/ workerNoReply(b, m)
        \/ \E size \in EncodedSizes : workerOnMessage(b, m, size)

Reset ==
    /\ used.resets < MaxResets
    /\ resetApp

Edit ==
    /\ used.edits < MaxEdits
    /\ \/ \E t \in WidthTexts : handleWidthChange(t)
       \/ \E t \in HeightTexts : handleHeightChange(t)
       \/ \E t \in PercentageTexts : inputPercentage(t)
       \/ \E t \in QualityTexts : inputQuality(t)
       \/ toggleResize
       \/ \E m \in {"pixels", "percentage"} : selectResizeMode(m)
       \/ \E f \in FormatChoices : selectFormat(f)
       \/ toggleMaintainAspect

\* uploads, compressions and resets in any order, the controls as set
Next ==
    \/ Upload(MaxUploads)
    \/ PreviewLoaded
    \/ Compress(MaxSingleRuns, MaxBatches)
    \/ SingleStep
    \/ TempImgStep
    \/ WorkerStep
    \/ Reset

Spec == Init /\ [][Next]_vars

FirstUpload ==
    /\ used.uploads = 0
    /\ \E s \in Selections : handleFileSelect(s)

FirstCompress ==
    /\ singleRuns = <<>> /\ workers = <<>>
    /\ compressImages

\* the first upload and the first compression of a session, the controls
\* edited at any point before, between and after them
NextControls ==
    \/ FirstUpload
    \/ PreviewLoaded
    \/ FirstCompress
    \/ SingleStep
    \/ TempImgStep
    \/ WorkerStep
    \/ Edit

SpecControls == Init /\ [][NextControls]_vars

UploadSingle ==
    /\ used.uploads < MaxUploads
    /\ \E s \in SingleSelections : handleFileSelect(s)

\* sessions on one file at a time: uploads, compressions and resets in any
\* order, the controls as set
NextSingle ==
    \/ UploadSingle
    \/ PreviewLoaded
    \/ Compress(MaxSessionRuns, 0)
    \/ SingleStep
    \/ Reset

SpecSingle == Init /\ [][NextSingle]_vars

\* the page with resize on at 1 percent: a.jpg resolves to 10x5, p.PNG to a
\* canvas without pixels, for which the encoder returns no data.  The scope
\* of workers plays no part in single-file runs.
InitRetry ==
    /\ InitState([DefaultControls EXCEPT
           !.resizeToggle = TRUE, !.resizeMode = "percentage",
           !.percentage = <<"1">>, !.format = "jpeg"])
    /\ hostWorkerDOM

\* one file after another compressed under the same controls, without reset
NextRetry ==
    \/ UploadSingle
    \/ PreviewLoaded
    \/ Compress(MaxSessionRuns, 0)
    \/ SingleStep

SpecRetry == InitRetry /\ [][NextRetry]_vars

Download ==
    /\ Cardinality(DownloadUrls) < MaxDownloads
    /\ downloadCompressedImage

EditFormat ==
    /\ used.edits < MaxEdits
    /\ \E f \in FormatChoices : selectFormat(f)

\* single-file sessions with downloads: the format list changed and the
\* download button clicked at any point
NextDownload ==
    \/ UploadSingle
    \/ PreviewLoaded
    \/ Compress(MaxSingleRuns, 0)
    \/ SingleStep
    \/ Reset
    \/ EditFormat
    \/ Download

SpecDownload == Init /\ [][NextDownload]_vars

EditDimensions ==
    /\ used.edits < MaxEdits
    /\ \/ \E t \in WidthTexts : handleWidthChange(t)
       \/ \E t \in HeightTexts : handleHeightChange(t)
       \/ toggleMaintainAspect

\* uploads, resets and edits of the width and height fields in any order,
\* the previews loading whenever the host gets to them
NextAspect ==
    \/ UploadSingle
    \/ PreviewLoaded
    \/ Reset
    \/ EditDimensions

SpecAspect == Init /\ [][NextAspect]_vars

\* the first upload and the first compression of a session, the encoder
\* giving results of several sizes
NextReport ==
    \/ FirstUpload
    \/ PreviewLoaded
    \/ FirstCompress
    \/ \E r \in 1..Len(singleRuns) : singleReaderLoaded(r)
    \/ \E r \in 1..Len(singleRuns) : singleImageLoaded(r)
    \/ \E r \in 1..Len(singleRuns) : \E size \in ReportSizes :
           singleEncoded(r, size)
    \/ TempImgStep
    \/ \E b \in 1..Len(workers) : \E m \in workers[b].inbox :
           \E size \in ReportSizes : workerOnMessage(b, m, size)

SpecReport == Init /\ [][NextReport]_vars

(***************************************************************************)
(* Properties.                                                             *)
(***************************************************************************)
Batches == 1..Len(workers)

\* batch b is the job of the latest compressImages call and nothing has
\* touched its inputs since: no reset, no later upload
IsCurrentJob(b) ==
    /\ used.job = b
    /\ workers[b].files = uploadedFiles
    /\ ~workers[b].aborted

\* a batch of more than one file with nothing left to happen: every message
\* posted to its worker has been handled and no dimension fetch can complete
Settled(b) ==
    /\ Len(workers[b].files) > 1
    /\ workers[b].inbox = {}
    /\ \A c \in workers[b].temps : ~File(c.file).decodable

ResultFilesOf(b) ==
    { compressedFiles[i].blob.file :
        i \in { j \in 1..Len(compressedFiles) : compressedFiles[j].batch = b } }

\* C1: a batch of N > 1 files, some of which fail to decode, ends with
\* completedCount = N: once nothing of the batch is left to happen,
\* compressedFiles.length equals the number of files of the batch.  Stated
\* for the hosts on which the worker code can run at all.
C1_PartialFailureCompletes ==
    \A b \in Batches :
        (/\ hostWorkerDOM
         /\ IsCurrentJob(b)
         /\ Settled(b)
         /\ \E f \in Range(workers[b].files) : ~File(f).decodable)
        => Len(compressedFiles) = Len(workers[b].files)

\* CompressionSettings is valid: quality within 0..100; absolute resize with
\* both dimensions present and positive; percentage resize with the
\* percentage present and positive
ValidSettings(c) ==
    /\ ~ParseInt(c.quality).nan
    /\ ParseInt(c.quality).val \in 0..100
    /\ c.resizeToggle =>
          \/ /\ c.resizeMode = "pixels"
             /\ ~ParseInt(c.width).nan /\ ParseInt(c.width).val > 0
             /\ ~ParseInt(c.height).nan /\ ParseInt(c.height).val > 0
          \/ /\ c.resizeMode = "percentage"
             /\ ~ParseInt(c.percentage).nan /\ ParseInt(c.percentage).val > 0

\* C2: a batch of N > 1 decodable files, not reset, dispatches every file
\* exactly once and ends with completedCount = N and one result per file.
\* Stated for the hosts on which the worker code can run at all, for valid
\* settings and for a batch that is the only one started.
C2_BatchCompletesAnyOrder ==
    \A b \in Batches :
        (/\ hostWorkerDOM
         /\ ValidSettings(workers[b].controls)
         /\ Len(workers) = 1
         /\ IsCurrentJob(b)
         /\ Settled(b)
         /\ \A f \in Range(workers[b].files) : File(f).decodable)
        => /\ \A f \in Range(workers[b].files) : workers[b].dispatched[f] = 1
           /\ Len(compressedFiles) = Len(workers[b].files)
           /\ ResultFilesOf(b) = Range(workers[b].files)

\* C3: "download all" is enabled only if the number of recorded results
\* equals the number of uploaded files and that number is positive.
C3_DownloadAllGated ==
    ~dom.downloadAllBtnDisabled
        => /\ Len(compressedFiles) = Len(uploadedFiles)
           /\ Len(uploadedFiles) > 0

\* a step in which the worker of batch b handled one of its messages
HandledMessageOf(b) ==
    /\ b \in 1..Len(workers')
    /\ workers'[b].inbox # workers[b].inbox
    /\ workers'[b].temps = workers[b].temps

\* C4: once a running batch has been reset, no message of it changes the
\* processed count, the progress bar, the result rows or compressedFiles.
C4_AbortSilence ==
    [][\A b \in Batches :
          (workers[b].aborted /\ HandledMessageOf(b))
              => /\ compressedFiles' = compressedFiles
                 /\ batchResults' = batchResults
                 /\ dom'.processedCount = dom.processedCount
                 /\ dom'.progressFill = dom.progressFill]_vars

\* C5: no worker of a batch that was reset while running is live.
C5_AbortTerminatesWorkers ==
    \A b \in Batches : workers[b].aborted => ~workers[b].live

\* C6: resetApp leaves no object URL of a result that compressedFiles held
\* before it allocated.
C6_ResetRevokesResultUrls ==
    [][resetApp => UrlsOf(compressedFiles) \cap liveUrls' = {}]_vars

\* C7: while a batch job is current, compressedFiles holds only results of
\* that job's own compressImages call.
C7_JobIsolation ==
    used.job # 0 =>
        \A i \in 1..Len(compressedFiles) : compressedFiles[i].batch = used.job

\* the integer nearest to n / d, halves up (n >= 0, d > 0)
NearestInt(n, d) ==
    CHOOSE k \in {n \div d, (n \div d) + 1} :
        2 * k * d - d <= 2 * n /\ 2 * n < 2 * k * d + d

\* the output dimensions the settings c ask for, for a source of size (w, h)
ExpectedDims(c, w, h) ==
    IF ~c.resizeToggle THEN [width |-> Num(w), height |-> Num(h)]
    ELSE IF c.resizeMode = "pixels"
    THEN [width |-> ParseInt(c.width), height |-> ParseInt(c.height)]
    ELSE [width |-> Num(NearestInt(w * ParseInt(c.percentage).val, 100)),
          height |-> Num(NearestInt(h * ParseInt(c.percentage).val, 100))]

HasExpectedDims(result) ==
    ValidSettings(result.controls) =>
        [width |-> result.width, height |-> result.height]
            = ExpectedDims(result.controls, File(result.blob.file).width,
                           File(result.blob.file).height)

\* C8: under valid settings every result, of the single-file pipeline and
\* of the batch pipeline, has the source's size when resize is off,
\* (round(w*p), round(h*p)) for percentage p and (W, H) for absolute (W, H),
\* the settings being the controls as the run read them.
C8_DimensionResolution ==
    /\ \A i \in 1..Len(dom.compressedPreview) :
           HasExpectedDims(dom.compressedPreview[i])
    /\ \A i \in 1..Len(batchResults) : HasExpectedDims(batchResults[i])

\* a batch row made under a valid percentage whose product is no integer
C8_Witness ==
    \E i \in 1..Len(batchResults) :
        LET r == batchResults[i]
        IN /\ r.controls.resizeToggle
           /\ r.controls.resizeMode = "percentage"
           /\ ValidSettings(r.controls)
           /\ (File(r.blob.file).width * ParseInt(r.controls.percentage).val)
                  % 100 # 0

IsPositiveInt(x) == ~x.nan /\ x.val >= 1

\* C9: every run that reaches rasterization, single or batch, draws with a
\* width and a height that are integers >= 1.
C9_PositiveOutputDimensions ==
    /\ \A r \in 1..Len(singleRuns) :
           singleRuns[r].rasterized =>
               IsPositiveInt(singleRuns[r].width)
                   /\ IsPositiveInt(singleRuns[r].height)
    /\ \A b \in Batches : \A d \in workers[b].drawn :
           IsPositiveInt(d.width) /\ IsPositiveInt(d.height)

\* C10: in percentage mode the message posted for a file carries
\* round(w_i * p) and round(h_i * p) of that file's own dimensions, in
\* whatever order the dimension fetches complete.
C10_PerFilePercentage ==
    \A b \in Batches : \A m \in workers[b].inbox :
        (m.controls.resizeToggle /\ m.controls.resizeMode = "percentage"
            /\ ~ParseInt(m.controls.percentage).nan)
        => /\ m.resize
           /\ m.width = Num(NearestInt(
                  File(m.file).width * ParseInt(m.controls.percentage).val, 100))
           /\ m.height = Num(NearestInt(
                  File(m.file).height * ParseInt(m.controls.percentage).val, 100))

\* the message of a later file is posted while the fetch of an earlier file
\* of the batch is still pending
C10_Witness ==
    \E b \in Batches : \E m \in workers[b].inbox : \E c \in workers[b].temps :
        /\ m.controls.resizeMode = "percentage"
        /\ m.file = workers[b].files[2]
        /\ c.file = workers[b].files[1]
        /\ File(m.file).width # File(c.file).width

\* C11: with maintain-aspect on and a known aspect ratio r > 0, typing the
\* width W sets the height field to round(W / r) and typing the height H sets
\* the width field to round(H * r); with maintain-aspect off the companion
\* field is left unchanged.
C11_AspectRatioLock ==
    [][/\ \A t \in WidthTexts :
            (handleWidthChange(t) /\ ~ParseInt(t).nan)
            => /\ (ui.maintainAspect /\ originalAspectRatio.num > 0)
                    => ui'.height = ToText(Num(NearestInt(
                           ParseInt(t).val * originalAspectRatio.den,
                           originalAspectRatio.num)))
               /\ ~ui.maintainAspect => ui'.height = ui.height
       /\ \A t \in HeightTexts :
            (handleHeightChange(t) /\ ~ParseInt(t).nan)
            => /\ (ui.maintainAspect /\ originalAspectRatio.num > 0)
                    => ui'.width = ToText(Num(NearestInt(
                           ParseInt(t).val * originalAspectRatio.num,
                           originalAspectRatio.den)))
               /\ ~ui.maintainAspect => ui'.width = ui.width]_vars

\* original 1000x500, maintain-aspect on: width 400 has given height 200
C11_Witness ==
    /\ originalAspectRatio = [num |-> 1000, den |-> 500]
    /\ ui.maintainAspect
    /\ ui.width = <<"4", "0", "0">>
    /\ ui.height = <<"2", "0", "0">>

\* the stored aspect ratio is the decoded ratio of the current file
RatioIsOfCurrentFile ==
    /\ currentFile # NoFile
    /\ File(currentFile).decodable
    /\ originalAspectRatio.num * File(currentFile).height
           = originalAspectRatio.den * File(currentFile).width

\* C12: whenever a width or height change recomputes the companion field,
\* the aspect ratio it uses is the decoded ratio of the current file, never
\* that of a file uploaded before it.
C12_NoStaleAspectRatio ==
    [][((\/ \E t \in WidthTexts : handleWidthChange(t)
         \/ \E t \in HeightTexts : handleHeightChange(t))
        /\ ui.maintainAspect /\ originalAspectRatio.num > 0)
       => RatioIsOfCurrentFile]_vars

SupportedMimeTypes == {"image/jpeg", "image/png", "image/webp"}

HasSupportedType(f) == File(f).type \in SupportedMimeTypes

\* C13: every file held in uploadedFiles, and every file passed to a decode
\* (the preview, the single-file pipeline, the batch pipeline), has MIME type
\* image/jpeg, image/png or image/webp.
C13_SupportedFormatsOnly ==
    /\ \A i \in 1..Len(uploadedFiles) : HasSupportedType(uploadedFiles[i])
    /\ currentFile # NoFile => HasSupportedType(currentFile)
    /\ \A p \in previewLoads : HasSupportedType(p.file)
    /\ \A r \in 1..Len(singleRuns) : HasSupportedType(singleRuns[r].file)
    /\ \A b \in Batches : \A i \in 1..Len(workers[b].files) :
           HasSupportedType(workers[b].files[i])

\* a selection with a GIF among supported files was uploaded and compressed
\* as a batch of the supported files only
C13_Witness ==
    /\ uploadedFiles = <<3, 2>>
    /\ \E b \in Batches : workers[b].files = <<3, 2>>

\* the extension of an encoded format
ExtensionOf(mime) ==
    CASE mime = "image/jpeg" -> "jpeg"
      [] mime = "image/png" -> "png"
      [] mime = "image/webp" -> "webp"

\* <name with its last extension removed> + "-compressed." + ext
SuggestedName(name, mime) ==
    SubSeq(name, 1, LastDot(name) - 1) \o <<"-compressed.", ExtensionOf(mime)>>

\* C14: every result, of the single-file pipeline and of the batch pipeline,
\* is named <input name without its last extension>-compressed.<ext>, ext
\* being the format its bytes are encoded in.
C14_FileNameDerivation ==
    /\ \A i \in 1..Len(dom.compressedPreview) :
           LET r == dom.compressedPreview[i]
           IN r.name = SuggestedName(File(r.blob.file).name, r.blob.type)
    /\ \A i \in 1..Len(compressedFiles) :
           LET e == compressedFiles[i]
           IN e.name = SuggestedName(File(e.blob.file).name, e.blob.type)

\* what the single-file pipeline resolves from the controls c for the file f
OutputFormatUnder(c, inputType) ==
    IF c.format = "same" THEN Subtype(inputType) ELSE c.format

DimsUnder(c, f) ==
    IF c.resizeToggle /\ c.resizeMode = "pixels"
    THEN [width |-> OrElse(ParseInt(c.width), Num(File(f).width)),
          height |-> OrElse(ParseInt(c.height), Num(File(f).height))]
    ELSE IF c.resizeToggle /\ c.resizeMode = "percentage"
    THEN [width |-> RoundScaled(File(f).width, ParseInt(c.percentage)),
          height |-> RoundScaled(File(f).height, ParseInt(c.percentage))]
    ELSE [width |-> Num(File(f).width), height |-> Num(File(f).height)]

\* a step in which run r leaves decoding with its settings resolved
ResolvesSettings(r) ==
    /\ singleRuns[r].stage = "decoding"
    /\ singleRuns'[r].stage = "encoding"

\* a step in which the completion handler of batch b records a result
RecordsResult(b) ==
    /\ Len(compressedFiles') = Len(compressedFiles) + 1
    /\ compressedFiles'[Len(compressedFiles')].batch = b

\* C15: the quality, output format and dimensions a single-file run encodes
\* with, and the name a batch result is given, are those the controls asked
\* for when compress was invoked, whatever was changed afterwards.
C15_SettingsFixedAtCompressTime ==
    [][/\ \A r \in 1..Len(singleRuns) :
            ResolvesSettings(r)
            => LET c == singleRuns[r].controls
                   f == singleRuns[r].file
               IN /\ singleRuns'[r].quality = ParseInt(c.quality)
                  /\ singleRuns'[r].outputFormat
                         = OutputFormatUnder(c, File(f).type)
                  /\ singleRuns'[r].width = DimsUnder(c, f).width
                  /\ singleRuns'[r].height = DimsUnder(c, f).height
       /\ \A b \in Batches :
            RecordsResult(b)
            => LET c == workers[b].controls
                   e == compressedFiles'[Len(compressedFiles')]
               IN e.name = getOutputFileName(File(e.blob.file).name,
                      OutputFormatUnder(c, getMimeType(e.blob.type)))]_vars

\* a step in which run r ends in the error outcome
Fails(r) ==
    /\ singleRuns[r].stage # "failed"
    /\ singleRuns'[r].stage = "failed"

\* C16: a single-file run whose read fails, whose image does not decode or
\* whose encoder returns no data never completes with a result, and the step
\* in which it fails leaves compressedFile, the compressed preview and the
\* download button as they were.
C16_SingleFailureLeavesState ==
    [][\A r \in 1..Len(singleRuns) :
          /\ Fails(r)
               => /\ compressedFile' = compressedFile
                  /\ dom'.compressedPreview = dom.compressedPreview
                  /\ dom'.downloadBtnDisabled = dom.downloadBtnDisabled
          /\ singleRuns'[r].stage = "done"
               => /\ File(singleRuns[r].file).decodable
                  /\ CanvasSize(singleRuns'[r].width, 300) > 0
                  /\ CanvasSize(singleRuns'[r].height, 150) > 0]_vars

\* the encoder returned no data to the second run while the result of the
\* first is held and downloadable
C16_Witness ==
    /\ Len(singleRuns) = 2
    /\ singleRuns[1].stage = "done"
    /\ singleRuns[2].stage = "failed" /\ singleRuns[2].rasterized
    /\ compressedFile # <<>> /\ compressedFile[1].file = singleRuns[1].file
    /\ ~dom.downloadBtnDisabled

\* a step in which compressImages starts pipeline work: a file read of the
\* single-file pipeline or a worker with its dispatch loop
StartsPipelineWork ==
    \/ Len(singleRuns') > Len(singleRuns)
    \/ Len(workers') > Len(workers)

\* C17: no pipeline work starts on invalid raw settings (quality outside
\* 0..100; absolute resize with a missing or non-positive width or height;
\* percentage resize with a missing or non-positive percentage).
C17_ValidationBeforeWork ==
    [][StartsPipelineWork => ValidSettings(ui)]_vars

\* (1 - s/o) * 100 to one decimal place, as text
OneDecimal(s, o) ==
    LET n == IF s > o THEN s - o ELSE o - s
        t == NearestInt(n * 1000, o)
    IN (IF s > o THEN <<"-">> ELSE <<>>)
           \o NatText(t \div 10) \o <<".">> \o NatText(t % 10)

\* C18: the reduction reported for a result of original size o > 0 and
\* compressed size s is (1 - s/o) * 100 rounded to one decimal place, in the
\* single-file preview and in every batch row; 500000 and 150000 give 70.0.
C18_SizeReductionReport ==
    /\ \A i \in 1..Len(dom.compressedPreview) :
           LET r == dom.compressedPreview[i]
           IN /\ r.reduction = OneDecimal(r.size, r.originalSize)
              /\ (r.originalSize = 500000 /\ r.size = 150000)
                     => r.reduction = <<"7", "0", ".", "0">>
    /\ \A i \in 1..Len(batchResults) :
           LET r == batchResults[i]
           IN /\ r.reduction = OneDecimal(r.size, r.originalSize)
              /\ (r.originalSize = 500000 /\ r.size = 150000)
                     => r.reduction = <<"7", "0", ".", "0">>

\* a batch row whose reduction, 99.7532, is rounded up to 99.8, next to a
\* row of a result larger than its original
C18_Witness ==
    \E i, j \in 1..Len(batchResults) :
        /\ batchResults[i].originalSize = 500000
        /\ batchResults[i].size = 1234
        /\ batchResults[i].reduction = <<"9", "9", ".", "8">>
        /\ batchResults[j].size > batchResults[j].originalSize

\* C19: the progress the batch completion handler reports stays within its
\* bounds: compressedFiles.length <= uploadedFiles.length, the processed
\* count shown does not exceed the total shown, and the progress bar is
\* within 0..100 percent.
C19_ProgressBounds ==
    /\ Len(compressedFiles) <= Len(uploadedFiles)
    /\ dom.processedCount <= dom.totalCount
    /\ dom.progressFill.num >= 0
    /\ dom.progressFill.num <= dom.progressFill.den

\* C20: whenever a single-file result is held or the single download is
\* enabled, there is a current file and the held result was produced by
\* compressing it.
C20_SingleResultConsistency ==
    (compressedFile # <<>> \/ ~dom.downloadBtnDisabled)
        => /\ currentFile # NoFile
           /\ compressedFile # <<>>
           /\ compressedFile[1].file = currentFile

\* C21: the name offered by a single-file download ends in the extension of
\* the format the downloaded blob is encoded in.
C21_ExportNameMatchesFormat ==
    \A i \in 1..Len(dom.lastDownload) :
        LET d == dom.lastDownload[i]
        IN d.name[Len(d.name)] = ExtensionOf(d.blob.type)

\* the width and height the batch pipeline resolves for the file f under the
\* controls as they are: the dispatch loop's message, then the worker
BatchDims(f) ==
    IF UsesTempImg THEN WorkerDims(TempMessage(0, TempClosure(f)))
    ELSE WorkerDims(DirectMessage(f))

\* C22: for every uploaded image and the controls as they are, the batch
\* pipeline resolves the same output width and height as the single-file
\* pipeline.
C22_SingleBatchEquivalence ==
    \A f \in Range(uploadedFiles) :
        File(f).decodable => BatchDims(f) = SingleDims(f)

\* C23: a selection or drop without a file of a supported type leaves
\* uploadedFiles, currentFile, the total and processed counts and the compress
\* button (with the rest of the page) unchanged, and starts no preview; an
\* empty selection is not processed at all.
C23_RejectedUploadLeavesState ==
    [][\A s \in SingleSelections :
          handleFileSelect(s)
          => /\ s # <<>>
             /\ (\A i \in 1..Len(s) : ~HasSupportedType(s[i]))
                  => /\ uploadedFiles' = uploadedFiles
                     /\ currentFile' = currentFile
                     /\ dom' = dom
                     /\ previewLoads' = previewLoads]_vars

\* c.webp is uploaded and a second selection, holding no supported file,
\* has been handled: had it been accepted, it would have started a preview
C23_Witness ==
    /\ used.uploads = 2
    /\ uploadedFiles = <<3>> /\ currentFile = 3
    /\ previewLoads = {[file |-> 3, upload |-> 1]}
    /\ dom.totalCount = 1 /\ ~dom.compressBtnDisabled

====
